---- MODULE Spec2Model ----
(***************************************************************************)
(* State-machine model of src/js/timeline.js: the Json document store, the *)
(* Timeline adapter (refresh, lock mode, widget callbacks) and the panels.  *)
(***************************************************************************)
EXTENDS Integers, Sequences, FiniteSets, TLC

VARIABLES
    storage,    \* content of the external file read by Utils.read(path)
    data,       \* Json.#data: the in-memory document
    visGroups,  \* Timeline.#groups: the flat group list given to the widget
    visItems,   \* Timeline.#items: the items given to the widget
    last,       \* the last operation: its name, arguments, result, dispatches
    steps,      \* number of operations performed
    panels,     \* what the four panels show: the content of their lists
    readOnly,   \* Timeline.#readOnly
    dialog,     \* the item callback that awaits its popup, if any
    customTimes \* ids of the custom time bars of the widget (the markers)

vars == <<storage, data, visGroups, visItems, last, steps, panels, readOnly,
          dialog, customTimes>>

---------------------------------------------------------------------------
(* Bounds of the model *)

\* Lengths of the runs of each specification.
MaxSteps == 2
MaxTripSteps == 3
MaxGroupSteps == 4
MaxItemSteps == 4
MaxMarkerSteps == 4
MaxEraSteps == 4
MaxSortSteps == 2
MaxLockSteps == 3
MaxPanelSteps == 2
MaxFileSteps == 2
MaxRemoveSteps == 3
MaxTreeSteps == 2
MaxWidgetSteps == 3
MaxOrderSteps == 3

---------------------------------------------------------------------------
(* JavaScript values *)

\* The object literal {}: a map without keys.
EmptyObject == [k \in {} |-> TRUE]

\* The value null passed as an argument.
Null == [null |-> TRUE]

\* Booleans are kept as tags so that a field may also hold a string.
JsTrue == "true"
JsFalse == "false"

\* ToBoolean of a boolean tag or of a string.
Truthy(v) == v \notin {JsFalse, ""}

\* The operator ! applied to a value.
Not(v) == IF Truthy(v) THEN JsFalse ELSE JsTrue

\* A Date object and the ISO string JSON.stringify turns it into.
DateObj(t) == [type |-> "Date", time |-> t]
IsoString(t) == [type |-> "string", time |-> t]

\* new Date(v).getTime()
getTime(v) == v.time

\* Date.now()
Now == 2

\* m with m[k] = v (assignment to a property of an object).
Put(m, k, v) == (k :> v) @@ m

\* delete m[k]
Delete(m, k) == [x \in DOMAIN m \ {k} |-> m[x]]

\* VIS.ITEM.DEFAULT_STYLE
DEFAULT_STYLE == [fg |-> "#1a1a1a", bg |-> "#d5ddf6", border |-> "#97b0f8"]

---------------------------------------------------------------------------
(* Identifiers and inputs *)

Uuids == {"u1", "u2", "u3", "u4", "u5"}
GroupIds == {"g1", "g2", "g3", "g4"}
AbsentId == "zz"
Names == {"A", "B"}
ItemIds == {"i1", "i2"}
EraIds == {"e1", "e2"}
EraOrder == <<"e1", "e2">>
MarkerIds == {"m1", "m2"}
Times == {1, 2}
Colors == {"#111111"}

\* A group record as written by addGroup.
Group(id, name, position, visible, childs) ==
    [id |-> id, name |-> name, category |-> "", position |-> position,
     visible |-> visible, childs |-> childs]

RECURSIVE Flatten(_)
\* Every group of a forest, parents before children, siblings in order.
Flatten(groups) ==
    IF groups = <<>> THEN <<>>
    ELSE LET g == Head(groups)
         IN <<g>> \o (IF "childs" \in DOMAIN g THEN Flatten(g.childs) ELSE <<>>)
                 \o Flatten(Tail(groups))

\* ids used by the groups of a forest
IdsOf(groups) == {Flatten(groups)[i].id : i \in 1..Len(Flatten(groups))}

\* uuidv4(): an identifier that no group of the document or of the file has.
uuidv4(used) == CHOOSE u \in Uuids : u \notin used

---------------------------------------------------------------------------
(* Contents of the external file *)

\* The file is absent (the request returns no JSON text).
FileMissing == [kind |-> "missing"]
\* The file holds text that JSON.parse rejects.
FileUnparseable == [kind |-> "unparseable"]
\* The file holds a JSON value that is no object (null, a number, a string).
FileNonObject == [kind |-> "nonobject"]
\* The file holds a JSON object with the fields of doc.
FileObject(doc) == [kind |-> "object", doc |-> doc]

\* An eras collection: an object or an array, and its named properties.
ErasObject(entries) == [array |-> FALSE, entries |-> entries]
ErasArray(entries) == [array |-> TRUE, entries |-> entries]

Era(text, start, end, color, visible) ==
    [text |-> text, start |-> start, end |-> end, color |-> color,
     visible |-> visible]

\* Three-level forest, root list out of position order.
SampleForest ==
    << Group("g1", "A", 2, JsTrue,
             << Group("g2", "B", 1, JsTrue,
                      << Group("g3", "C", 1, JsTrue, <<>>) >>) >>),
       Group("g4", "D", 1, JsFalse, <<>>) >>

\* A group written without its childs list.
ForestNoChilds ==
    << [id |-> "g1", name |-> "A", category |-> "", position |-> 1,
        visible |-> JsTrue] >>

SampleItems ==
    << [id |-> "i1", group |-> "g1", content |-> "x1", className |-> "c1",
        start |-> IsoString(1), type |-> "point"] >>

SampleCategories ==
    "c1" :> [fg |-> "#000000", bg |-> "#d5ddf6", border |-> "#97b0f8"]

SampleEras ==
    ErasObject(("e1" :> Era("t1", IsoString(1), IsoString(2), "#111111", JsTrue)))

SampleMarkers == "m1" :> [name |-> "Launch", date |-> IsoString(1)]

FullDoc ==
    [configuration |-> [locale |-> "en"],
     groups |-> SampleForest,
     items |-> SampleItems,
     item_categories |-> SampleCategories,
     eras |-> SampleEras,
     markers |-> SampleMarkers]

\* An object that has groups only.
GroupsOnlyDoc == [groups |-> SampleForest]

\* An object without a groups field.
NoGroupsDoc ==
    [configuration |-> [locale |-> "en"],
     items |-> SampleItems,
     item_categories |-> SampleCategories,
     eras |-> SampleEras,
     markers |-> SampleMarkers]

NoChildsDoc == [FullDoc EXCEPT !.groups = ForestNoChilds]

\* A forest in which the id of the root group D is also that of a group
\* further up in the traversal, two levels down.
DuplicateIdForest ==
    << Group("g1", "A", 1, JsTrue,
             << Group("g3", "B", 1, JsTrue,
                      << Group("g2", "C", 1, JsTrue,
                               << Group("g4", "E", 1, JsTrue, <<>>) >>) >>) >>),
       Group("g2", "D", 2, JsTrue, <<>>) >>

\* Three root groups as three calls of addGroup leave them.
ThreeRoots ==
    << Group("g1", "A", 1, JsTrue, <<>>), Group("g2", "B", 2, JsTrue, <<>>),
       Group("g3", "C", 3, JsTrue, <<>>) >>

\* An object whose item names a category that the file does not hold.
ItemsOnlyDoc == [groups |-> <<>>, items |-> SampleItems]

Storages ==
    {FileMissing, FileUnparseable, FileNonObject, FileObject(FullDoc),
     FileObject(GroupsOnlyDoc), FileObject(NoGroupsDoc),
     FileObject(NoChildsDoc)}

---------------------------------------------------------------------------
(* JSON.stringify and JSON.parse *)

\* A Date is written as its ISO string; every other value as itself.
jsonValue(v) ==
    IF v.type = "Date" THEN IsoString(v.time) ELSE v

\* The listed fields of record r that hold dates, written as JSON.
jsonDates(r, fields) ==
    [f \in DOMAIN r |-> IF f \in fields THEN jsonValue(r[f]) ELSE r[f]]

\* An array is written by its indexed elements only: named properties set
\* on it are not part of the text.
jsonEras(eras) ==
    IF eras.array THEN ErasArray(EmptyObject)
    ELSE ErasObject([u \in DOMAIN eras.entries |->
                        jsonDates(eras.entries[u], {"start", "end"})])

\* JSON.stringify(this.data, null, 2), given as the value its text parses to.
stringify(d) ==
    [configuration |-> d.configuration,
     groups |-> d.groups,
     items |-> [i \in 1..Len(d.items) |-> jsonDates(d.items[i], {"start", "end"})],
     item_categories |-> d.item_categories,
     eras |-> jsonEras(d.eras),
     markers |-> [u \in DOMAIN d.markers |-> jsonDates(d.markers[u], {"date"})]]

---------------------------------------------------------------------------
(* Json.#sortGroups *)

RECURSIVE insertByPosition(_, _)
\* g placed after every group whose position is not greater (stable order).
insertByPosition(g, sorted) ==
    IF sorted = <<>> THEN <<g>>
    ELSE IF g.position < Head(sorted).position THEN <<g>> \o sorted
    ELSE <<Head(sorted)>> \o insertByPosition(g, Tail(sorted))

RECURSIVE sortByPosition(_)
\* groups.sort(...) with the comparator on position: ascending and stable.
sortByPosition(groups) ==
    IF groups = <<>> THEN <<>>
    ELSE insertByPosition(groups[Len(groups)],
                          sortByPosition(SubSeq(groups, 1, Len(groups) - 1)))

\* The root list sorted, the childs lists left as they are.
sortGroupsRootOnly(groups) == sortByPosition(groups)

RECURSIVE sortGroups(_)
\* The sibling list sorted, then the childs of each of its groups.
sortGroups(groups) ==
    LET sorted == sortByPosition(groups)
    IN [i \in 1..Len(sorted) |->
           [sorted[i] EXCEPT !.childs = sortGroups(sorted[i].childs)]]

\* Whether #sortGroups ends in an exception: a group without a childs list
\* makes the call recurse on the root list without end (RangeError).
sortGroupsThrows(groups) ==
    \E i \in 1..Len(Flatten(groups)) : "childs" \notin DOMAIN Flatten(groups)[i]

---------------------------------------------------------------------------
(* Json.isValid, Json.load, Json.save *)

isValid(d) ==
    /\ "configuration" \in DOMAIN d
    /\ "groups" \in DOMAIN d
    /\ "items" \in DOMAIN d
    /\ "item_categories" \in DOMAIN d
    /\ "eras" \in DOMAIN d
    /\ "markers" \in DOMAIN d

\* The try block of load: the parsed and sorted document, or the exception
\* that the catch clause turns into {}.
tryParse(s) ==
    IF s.kind # "object" THEN [threw |-> TRUE, data |-> EmptyObject]
    ELSE IF "groups" \notin DOMAIN s.doc THEN [threw |-> TRUE, data |-> EmptyObject]
    ELSE IF sortGroupsThrows(s.doc.groups) THEN [threw |-> TRUE, data |-> EmptyObject]
    ELSE [threw |-> FALSE,
          data |-> [s.doc EXCEPT !.groups = sortGroups(s.doc.groups)]]

\* The backfill of load without its last field.
backfillNoEras(d) ==
    [f \in {"configuration", "groups", "items", "item_categories", "markers"}
           \cup (DOMAIN d \cap {"eras"}) |->
        IF f \in DOMAIN d THEN d[f]
        ELSE IF f \in {"groups", "items"} THEN <<>> ELSE EmptyObject]

\* "Add missing fields"
backfill(d) ==
    [configuration |-> IF "configuration" \in DOMAIN d THEN d.configuration ELSE EmptyObject,
     groups |-> IF "groups" \in DOMAIN d THEN d.groups ELSE <<>>,
     items |-> IF "items" \in DOMAIN d THEN d.items ELSE <<>>,
     item_categories |-> IF "item_categories" \in DOMAIN d THEN d.item_categories ELSE EmptyObject,
     markers |-> IF "markers" \in DOMAIN d THEN d.markers ELSE EmptyObject,
     eras |-> IF "eras" \in DOMAIN d THEN d.eras ELSE ErasArray(EmptyObject)]

\* load(): the document it leaves, the events it dispatches, whether an
\* exception leaves the method.
load(s) ==
    LET t == tryParse(s)
        d == IF t.threw THEN EmptyObject ELSE t.data
    IN [data |-> backfill(d), ret |-> TRUE, notified |-> 1, raised |-> FALSE]

\* save(path): the text written to the file.
save(d) == FileObject(stringify(d))

---------------------------------------------------------------------------
(* Json: group operations.  Each yields the document it leaves, the value *)
(* it returns, the number of 'updated' events it dispatches and whether an *)
(* exception leaves it.                                                    *)

Result(d, ret, notified) ==
    [data |-> d, ret |-> ret, notified |-> notified, raised |-> FALSE]

\* groups.splice(index, 1)
splice(seq, index) ==
    SubSeq(seq, 1, index - 1) \o SubSeq(seq, index + 1, Len(seq))

RECURSIVE removeGroupIn(_, _, _)
\* The loop of removeGroup over one sibling list, from index on; a match
\* found below a group dispatches once more in the call for its parent list.
removeGroupIn(groups, id, index) ==
    IF index > Len(groups)
    THEN [groups |-> groups, ret |-> FALSE, notified |-> 0]
    ELSE LET group == groups[index]
         IN IF group.id = id
            THEN [groups |-> splice(groups, index), ret |-> TRUE, notified |-> 1]
            ELSE LET removed == removeGroupIn(group.childs, id, 1)
                 IN IF removed.ret
                    THEN [groups |-> [groups EXCEPT ![index].childs = removed.groups],
                          ret |-> TRUE, notified |-> removed.notified + 1]
                    ELSE removeGroupIn(groups, id, index + 1)

\* removeGroup that looks at the root list only.
removeGroupRootOnly(d, id) ==
    IF \E i \in 1..Len(d.groups) : d.groups[i].id = id
    THEN LET index == CHOOSE i \in 1..Len(d.groups) :
                         /\ d.groups[i].id = id
                         /\ \A j \in 1..(i - 1) : d.groups[j].id # id
         IN Result([d EXCEPT !.groups = splice(@, index)], TRUE, 1)
    ELSE Result(d, FALSE, 0)

removeGroup(d, id) ==
    LET r == removeGroupIn(d.groups, id, 1)
    IN Result([d EXCEPT !.groups = r.groups], r.ret, r.notified)

\* addGroup numbering the new group from 0 (length instead of length + 1).
addGroupPositionLen(d, name, uuid) ==
    IF name = "" THEN Result(d, FALSE, 0)
    ELSE Result([d EXCEPT !.groups =
                    Append(@, [id |-> uuid, name |-> name, category |-> "",
                               position |-> Len(d.groups),
                               visible |-> JsTrue, childs |-> <<>>])],
                TRUE, 1)

addGroup(d, name, uuid) ==
    IF name = "" THEN Result(d, FALSE, 0)
    ELSE Result([d EXCEPT !.groups =
                    Append(@, [id |-> uuid, name |-> name, category |-> "",
                               position |-> Len(d.groups) + 1,
                               visible |-> JsTrue, childs |-> <<>>])],
                TRUE, 1)

RECURSIVE renameGroupIn(_, _, _, _)
renameGroupIn(groups, id, name, index) ==
    IF index > Len(groups)
    THEN [groups |-> groups, ret |-> FALSE, notified |-> 0]
    ELSE LET group == groups[index]
         IN IF group.id = id
            THEN [groups |-> [groups EXCEPT ![index].name = name],
                  ret |-> TRUE, notified |-> 1]
            ELSE LET renamed == renameGroupIn(group.childs, id, name, 1)
                 IN IF renamed.ret
                    THEN [groups |-> [groups EXCEPT ![index].childs = renamed.groups],
                          ret |-> TRUE, notified |-> renamed.notified + 1]
                    ELSE renameGroupIn(groups, id, name, index + 1)

\* renameGroup without its check of the name.
renameGroupAnyName(d, id, name) ==
    LET r == renameGroupIn(d.groups, id, name, 1)
    IN Result([d EXCEPT !.groups = r.groups], r.ret, r.notified)

renameGroup(d, id, name) ==
    IF name = "" THEN Result(d, FALSE, 0)
    ELSE LET r == renameGroupIn(d.groups, id, name, 1)
         IN Result([d EXCEPT !.groups = r.groups], r.ret, r.notified)

RECURSIVE toggleGroupVisibilityIn(_, _, _)
toggleGroupVisibilityIn(groups, id, index) ==
    IF index > Len(groups)
    THEN [groups |-> groups, ret |-> FALSE, notified |-> 0]
    ELSE LET group == groups[index]
         IN IF group.id = id
            THEN [groups |-> [groups EXCEPT ![index].visible = Not(group.visible)],
                  ret |-> TRUE, notified |-> 1]
            ELSE LET toggled == toggleGroupVisibilityIn(group.childs, id, 1)
                 IN IF toggled.ret
                    THEN [groups |-> [groups EXCEPT ![index].childs = toggled.groups],
                          ret |-> TRUE, notified |-> toggled.notified + 1]
                    ELSE toggleGroupVisibilityIn(groups, id, index + 1)

toggleGroupVisibility(d, id) ==
    LET r == toggleGroupVisibilityIn(d.groups, id, 1)
    IN Result([d EXCEPT !.groups = r.groups], r.ret, r.notified)

---------------------------------------------------------------------------
(* Json: item operations *)

\* The index of the first item whose id is id, 0 when there is none.
indexOfItem(items, id) ==
    IF \E i \in 1..Len(items) : items[i].id = id
    THEN CHOOSE i \in 1..Len(items) :
            /\ items[i].id = id
            /\ \A j \in 1..(i - 1) : items[j].id # id
    ELSE 0

\* addCategory without the test that the key is new.
addCategoryAlways(categories, item) ==
    IF "className" \in DOMAIN item
    THEN Put(categories, item.className, DEFAULT_STYLE)
    ELSE categories

\* "Add its category if needed"
addCategory(categories, item) ==
    IF "className" \in DOMAIN item /\ item.className \notin DOMAIN categories
    THEN Put(categories, item.className, DEFAULT_STYLE)
    ELSE categories

\* addItem without the scan for an item of the same id.
addItemNoScan(d, item) ==
    IF item = Null THEN Result(d, FALSE, 0)
    ELSE IF "id" \notin DOMAIN item THEN Result(d, FALSE, 0)
    ELSE Result([d EXCEPT !.items = Append(@, item),
                          !.item_categories = addCategory(@, item)],
                TRUE, 1)

addItem(d, item) ==
    IF item = Null THEN Result(d, FALSE, 0)
    ELSE IF "id" \notin DOMAIN item THEN Result(d, FALSE, 0)
    ELSE IF indexOfItem(d.items, item.id) # 0 THEN Result(d, FALSE, 0)
    ELSE Result([d EXCEPT !.items = Append(@, item),
                          !.item_categories = addCategory(@, item)],
                TRUE, 1)

\* if(field in data) item[field] = data[field]
assign(item, input, field) ==
    IF field \in DOMAIN input THEN Put(item, field, input[field]) ELSE item

\* updateItem storing the input object in place of the item.
replacedItem(item, input) ==
    [f \in DOMAIN input \cap {"id", "group", "content", "className", "start",
                             "end", "type", "description"} |-> input[f]]

\* The item after the assignments of updateItem, in the order of the code.
updatedItem(item, input) ==
    LET a == assign(item, input, "group")
        b == assign(a, input, "content")
        c == assign(b, input, "start")
        e == assign(c, input, "end")
        f == assign(e, input, "type")
        g == assign(f, input, "className")
    IN assign(g, input, "description")

updateItem(d, item) ==
    IF item = Null THEN Result(d, FALSE, 0)
    ELSE IF "id" \notin DOMAIN item THEN Result(d, FALSE, 0)
    ELSE LET index == indexOfItem(d.items, item.id)
         IN IF index = 0 THEN Result(d, FALSE, 0)
            ELSE Result([d EXCEPT !.items[index] = updatedItem(@, item),
                                  !.item_categories = addCategory(@, item)],
                        TRUE, 1)

\* removeItem that also drops the category of the removed item.
removeItemAndCategory(d, item) ==
    IF item = Null THEN Result(d, FALSE, 0)
    ELSE IF "id" \notin DOMAIN item THEN Result(d, FALSE, 0)
    ELSE LET index == indexOfItem(d.items, item.id)
         IN IF index = 0 THEN Result(d, FALSE, 0)
            ELSE Result([d EXCEPT !.items = splice(@, index),
                                  !.item_categories =
                                      IF "className" \in DOMAIN d.items[index]
                                      THEN Delete(@, d.items[index].className)
                                      ELSE @],
                        TRUE, 1)

removeItem(d, item) ==
    IF item = Null THEN Result(d, FALSE, 0)
    ELSE IF "id" \notin DOMAIN item THEN Result(d, FALSE, 0)
    ELSE LET index == indexOfItem(d.items, item.id)
         IN IF index = 0 THEN Result(d, FALSE, 0)
            ELSE Result([d EXCEPT !.items = splice(@, index)], TRUE, 1)

---------------------------------------------------------------------------
(* Json: marker and era operations (none dispatches an event) *)

\* addMarker without the test that the uuid is new.
addMarkerOverwrite(d, uuid, name, date) ==
    Result([d EXCEPT !.markers = Put(@, uuid, [name |-> name, date |-> date])],
           TRUE, 0)

addMarker(d, uuid, name, date) ==
    IF uuid \in DOMAIN d.markers THEN Result(d, FALSE, 0)
    ELSE Result([d EXCEPT !.markers = Put(@, uuid, [name |-> name, date |-> date])],
                TRUE, 0)

removeMarker(d, uuid) ==
    IF uuid \notin DOMAIN d.markers THEN Result(d, FALSE, 0)
    ELSE Result([d EXCEPT !.markers = Delete(@, uuid)], TRUE, 0)

\* updateMarker that assigns both fields whatever they are.
updateMarkerBoth(d, uuid, name, date) ==
    IF uuid \notin DOMAIN d.markers THEN Result(d, FALSE, 0)
    ELSE Result([d EXCEPT !.markers = Put(@, uuid, [name |-> name, date |-> date])],
                TRUE, 0)

updateMarker(d, uuid, name, date) ==
    IF uuid \notin DOMAIN d.markers THEN Result(d, FALSE, 0)
    ELSE LET m == d.markers[uuid]
             n == IF name # "" THEN [m EXCEPT !.name = name] ELSE m
             x == IF date # Null THEN [n EXCEPT !.date = date] ELSE n
         IN Result([d EXCEPT !.markers = Put(@, uuid, x)], TRUE, 0)

getEra(d, uuid) ==
    IF uuid \in DOMAIN d.eras.entries THEN d.eras.entries[uuid] ELSE Null

addEra(d, uuid, text, startDate, endDate, color) ==
    IF uuid \in DOMAIN d.eras.entries THEN Result(d, FALSE, 0)
    ELSE Result([d EXCEPT !.eras.entries =
                    Put(@, uuid, Era(text, startDate, endDate, color, JsTrue))],
                TRUE, 0)

removeEra(d, uuid) ==
    IF uuid \notin DOMAIN d.eras.entries THEN Result(d, FALSE, 0)
    ELSE Result([d EXCEPT !.eras.entries = Delete(@, uuid)], TRUE, 0)

updateEra(d, uuid, text, startDate, endDate, color) ==
    IF uuid \notin DOMAIN d.eras.entries THEN Result(d, FALSE, 0)
    ELSE LET e == d.eras.entries[uuid]
             a == IF text # "" THEN [e EXCEPT !.text = text] ELSE e
             b == IF startDate # Null THEN [a EXCEPT !.start = startDate] ELSE a
             c == IF endDate # Null THEN [b EXCEPT !.end = endDate] ELSE b
             x == IF color # "" THEN [c EXCEPT !.color = color] ELSE c
         IN Result([d EXCEPT !.eras.entries = Put(@, uuid, x)], TRUE, 0)

toggleEraVisibility(d, uuid) ==
    IF uuid \notin DOMAIN d.eras.entries THEN Result(d, FALSE, 0)
    ELSE Result([d EXCEPT !.eras.entries[uuid].visible = Not(@)], TRUE, 0)

---------------------------------------------------------------------------
(* Timeline: refresh and #updateRange; PanelItemCategories: colour edits *)

NoParent == ""

\* ids of the records of flat that sit at treeLevel: what the visible
\* children pushed on their parent's nestedGroups.
nestedIds(flat, treeLevel) ==
    LET direct == SelectSeq(flat, LAMBDA r : r.treeLevel = treeLevel)
    IN [i \in 1..Len(direct) |-> direct[i].id]

RECURSIVE fromJsonGroups(_, _, _)

\* #fromJsonGroups that pushes the record of a group after those of its
\* childs.
fromJsonGroupsChildsFirst(groups, treeLevel, parent) ==
    IF groups = <<>> THEN <<>>
    ELSE LET group == Head(groups)
             rest == fromJsonGroups(Tail(groups), treeLevel, parent)
             childsGroups == fromJsonGroups(group.childs, treeLevel + 1, group.id)
             nested == nestedIds(childsGroups, treeLevel + 1)
             base == [id |-> group.id, treeLevel |-> treeLevel,
                      content |-> group.name, className |-> group.category,
                      position |-> group.position]
             withParent == IF parent # NoParent
                           THEN Put(base, "nestedInGroup", parent)
                           ELSE base
             visGroup == IF nested # <<>>
                         THEN Put(Put(withParent, "nestedGroups", nested),
                                  "showNested", JsTrue)
                         ELSE withParent
         IN IF ~Truthy(group.visible) THEN rest
            ELSE childsGroups \o <<visGroup>> \o rest

\* #fromJsonGroups that skips the record of a hidden group and still visits
\* its childs, in the place of the hidden group.
fromJsonGroupsKeepChilds(groups, treeLevel, parent) ==
    IF groups = <<>> THEN <<>>
    ELSE LET group == Head(groups)
             rest == fromJsonGroups(Tail(groups), treeLevel, parent)
             childsGroups == fromJsonGroups(group.childs, treeLevel + 1, group.id)
             nested == nestedIds(childsGroups, treeLevel + 1)
             base == [id |-> group.id, treeLevel |-> treeLevel,
                      content |-> group.name, className |-> group.category,
                      position |-> group.position]
             withParent == IF parent # NoParent
                           THEN Put(base, "nestedInGroup", parent)
                           ELSE base
             visGroup == IF nested # <<>>
                         THEN Put(Put(withParent, "nestedGroups", nested),
                                  "showNested", JsTrue)
                         ELSE withParent
         IN IF ~Truthy(group.visible)
            THEN fromJsonGroups(group.childs, treeLevel, parent) \o rest
            ELSE <<visGroup>> \o childsGroups \o rest

\* #fromJsonGroups(groups, treeLevel, parent); parent is given by its id.
\* Every modelled group carries an id, so "Override id if provided" applies.
fromJsonGroups(groups, treeLevel, parent) ==
    IF groups = <<>> THEN <<>>
    ELSE LET group == Head(groups)
             rest == fromJsonGroups(Tail(groups), treeLevel, parent)
         IN IF ~Truthy(group.visible) THEN rest
            ELSE LET childsGroups == fromJsonGroups(group.childs, treeLevel + 1, group.id)
                     nested == nestedIds(childsGroups, treeLevel + 1)
                     base == [id |-> group.id, treeLevel |-> treeLevel,
                              content |-> group.name, className |-> group.category,
                              position |-> group.position]
                     withParent == IF parent # NoParent
                                   THEN Put(base, "nestedInGroup", parent)
                                   ELSE base
                     visGroup == IF nested # <<>>
                                 THEN Put(Put(withParent, "nestedGroups", nested),
                                          "showNested", JsTrue)
                                 ELSE withParent
                 IN <<visGroup>> \o childsGroups \o rest

\* The era test of refresh with < in place of <=.
eraShownStrict(e) ==
    /\ Truthy(e.visible)
    /\ ~(getTime(e.end) < getTime(e.start))

\* Whether refresh materializes era e: visible and end after start.
eraShown(e) ==
    /\ Truthy(e.visible)
    /\ ~(getTime(e.end) <= getTime(e.start))

eraItem(id, e) ==
    [id |-> id, className |-> id, content |-> e.text, start |-> e.start,
     end |-> e.end, type |-> "background"]

RECURSIVE eraItems(_, _)
\* The loop of refresh over Object.entries(eras), in the order of order.
eraItems(entries, order) ==
    IF order = <<>> THEN <<>>
    ELSE LET id == Head(order)
             rest == eraItems(entries, Tail(order))
         IN IF id \in DOMAIN entries /\ eraShown(entries[id])
            THEN <<eraItem(id, entries[id])>> \o rest
            ELSE rest

\* refresh(): the content of the widget's group and item sets.
refresh(d) ==
    IF isValid(d)
    THEN [groups |-> fromJsonGroups(d.groups, 1, NoParent),
          items |-> d.items \o eraItems(d.eras.entries, EraOrder)]
    ELSE [groups |-> <<>>, items |-> <<>>]

Min(S) == CHOOSE x \in S : \A y \in S : x <= y
Max(S) == CHOOSE x \in S : \A y \in S : y <= x

\* getItemRange() of the widget, then the two assignments of #updateRange.
updateRange(d, items) ==
    LET starts == {getTime(items[i].start) :
                      i \in {j \in 1..Len(items) : "start" \in DOMAIN items[j]}}
        ends == {getTime(items[i].end) :
                      i \in {j \in 1..Len(items) : "end" \in DOMAIN items[j]}}
        start == IF starts # {} THEN Min(starts) ELSE Now
        end == IF starts \cup ends # {} THEN Max(starts \cup ends) ELSE Now
        c == d.configuration
        a == IF "startDate" \notin DOMAIN c THEN Put(c, "startDate", start) ELSE c
        b == IF "endDate" \notin DOMAIN a THEN Put(a, "endDate", end) ELSE a
    IN IF isValid(d) THEN [d EXCEPT !.configuration = b] ELSE d

\* panel.json.data.item_categories[category].fg = input.value (and bg, border)
onForegroundChanged(d, category, value) ==
    [d EXCEPT !.item_categories[category].fg = value]
onBackgroundChanged(d, category, value) ==
    [d EXCEPT !.item_categories[category].bg = value]
onBorderChanged(d, category, value) ==
    [d EXCEPT !.item_categories[category].border = value]

---------------------------------------------------------------------------
(* Inputs of the operations *)

ItemFields == {"group", "content", "className", "start", "end", "type",
               "description"}

\* The value variant v of an item field.
fieldValue(field, v) ==
    CASE field = "group" -> IF v = 1 THEN "g1" ELSE "g4"
      [] field = "content" -> IF v = 1 THEN "x1" ELSE "x2"
      [] field = "className" -> IF v = 1 THEN "c1" ELSE "c2"
      [] field = "start" -> DateObj(v)
      [] field = "end" -> DateObj(v + 1)
      [] field = "type" -> IF v = 1 THEN "point" ELSE "range"
      [] field = "description" -> IF v = 1 THEN "d1" ELSE "d2"

\* The item object with the given id and fields.
Item(id, fields, v) ==
    [f \in fields \cup {"id"} |-> IF f = "id" THEN id ELSE fieldValue(f, v)]

FieldSets == {{"start"}, {"className"}, ItemFields}

ItemInputs ==
    {Null, [content |-> "x1"]}
        \cup {Item(id, fields, v) : id \in ItemIds, fields \in FieldSets, v \in 1..2}

NameInputs == Names \cup {""}
MarkerNames == {"Launch", "Other"}
DateInputs == {DateObj(t) : t \in Times}
ColorInputs == {"#ff0000"}

---------------------------------------------------------------------------
(* Panels: the lists they show *)

\* The text setAttribute stores for a value: a boolean becomes a string.
attribute(v) ==
    IF v = JsTrue THEN "'true'" ELSE IF v = JsFalse THEN "'false'" ELSE v

RECURSIVE groupsToHtml(_)
\* PanelGroups.#toHtml: one li per group with its attributes, its eye icon
\* (fa-eye or fa-eye-slash) and its ol.
groupsToHtml(groups) ==
    [i \in 1..Len(groups) |->
        [id |-> groups[i].id, name |-> groups[i].name,
         category |-> groups[i].category, position |-> groups[i].position,
         visible |-> attribute(groups[i].visible),
         eye |-> Truthy(groups[i].visible),
         childs |-> groupsToHtml(groups[i].childs)]]

\* PanelGroups.rebuild()
rebuildGroups(d) == IF isValid(d) THEN groupsToHtml(d.groups) ELSE <<>>

RECURSIVE fromHtml(_)

\* fromHtml that reads the position back from the attribute of the li.
fromHtmlKeepPosition(list) ==
    [i \in 1..Len(list) |->
        [id |-> list[i].id, name |-> list[i].name,
         category |-> list[i].category, position |-> list[i].position,
         visible |-> list[i].visible, childs |-> fromHtml(list[i].childs)]]

\* PanelGroups.fromHtml: groups read back from the list, positions renumbered.
fromHtml(list) ==
    [i \in 1..Len(list) |->
        [id |-> list[i].id, name |-> list[i].name,
         category |-> list[i].category, position |-> i,
         visible |-> list[i].visible, childs |-> fromHtml(list[i].childs)]]

\* PanelEras.rebuild(): one li per era with its text and its eye icon.
rebuildEras(d) ==
    IF isValid(d)
    THEN [u \in DOMAIN d.eras.entries |->
             [text |-> d.eras.entries[u].text,
              visible |-> Truthy(d.eras.entries[u].visible)]]
    ELSE EmptyObject

\* PanelItemCategories.rebuild(): one row per category with its colours.
rebuildCategories(d) == IF isValid(d) THEN d.item_categories ELSE EmptyObject

\* PanelConfiguration.reset(): the two date inputs.
reset(d) ==
    [startDate |-> IF "startDate" \in DOMAIN d.configuration
                   THEN d.configuration.startDate ELSE "Invalid Date",
     endDate |-> IF "endDate" \in DOMAIN d.configuration
                 THEN d.configuration.endDate ELSE "Invalid Date"]

\* The four panels built from document d.
rendered(d) ==
    [groups |-> rebuildGroups(d), categories |-> rebuildCategories(d),
     eras |-> rebuildEras(d), configuration |-> reset(d)]

\* The Json methods called by the slots of PanelGroups and of PanelEras.
GroupSlots == {"addGroup", "removeGroup", "renameGroup", "toggleGroupVisibility"}
EraSlots == {"addEra", "removeEra", "updateEra", "toggleEraVisibility"}

\* The panels after a Json method returned r: the categories and the
\* configuration panels answer the 'updated' event; the groups and the eras
\* panels rebuild when a method called by one of their slots returns true.
panelsAfter(op, r, p) ==
    [groups |-> IF op \in GroupSlots /\ r.ret THEN rebuildGroups(r.data)
                ELSE p.groups,
     categories |-> IF r.notified > 0 THEN rebuildCategories(r.data)
                    ELSE p.categories,
     eras |-> IF op \in EraSlots /\ r.ret THEN rebuildEras(r.data) ELSE p.eras,
     configuration |-> IF r.notified > 0 THEN reset(r.data)
                       ELSE p.configuration]

---------------------------------------------------------------------------
(* Actions *)

NoArg == [none |-> TRUE]

\* What the callback function that the widget passed to onAdd, onUpdate,
\* onRemove or onMove was called with, if it was called.
NotCalled == [called |-> FALSE]
Called(item) == [called |-> TRUE, item |-> item]

Record(op, arg, r) ==
    [op |-> op, arg |-> arg, ret |-> r.ret, notified |-> r.notified,
     raised |-> r.raised, answered |-> NotCalled]

\* A call of a Json method after which the timeline shows the document as
\* it was before the call.
StoreEffectsStale(op, r) ==
    /\ data' = r.data
    /\ IF r.notified > 0 \/ (op \in EraSlots /\ r.ret)
       THEN /\ visGroups' = refresh(data).groups
            /\ visItems' = refresh(data).items
       ELSE UNCHANGED <<visGroups, visItems>>
    /\ panels' = panelsAfter(op, r, panels)
    /\ UNCHANGED <<storage, readOnly>>

\* A call of a Json method.  An 'updated' event reaches
\* PanelItemCategories.rebuild, whose resetStylesheet dispatches the
\* stylesheet event that Application answers with Timeline.refresh; so does
\* the rebuild of PanelEras after one of its slots.
StoreEffects(op, r) ==
    /\ data' = r.data
    /\ IF r.notified > 0 \/ (op \in EraSlots /\ r.ret)
       THEN /\ visGroups' = refresh(r.data).groups
            /\ visItems' = refresh(r.data).items
       ELSE UNCHANGED <<visGroups, visItems>>
    /\ panels' = panelsAfter(op, r, panels)
    /\ UNCHANGED <<storage, readOnly>>

StoreCall(op, arg, r) ==
    /\ StoreEffects(op, r)
    /\ last' = Record(op, arg, r)

\* A call of a Json method while no callback awaits, or beside it.
StoreOp(op, arg, r) ==
    StoreCall(op, arg, r) /\ UNCHANGED <<dialog, customTimes>>

Load == StoreOp("load", NoArg, load(storage))

Save ==
    /\ storage' = save(data)
    /\ last' = Record("save", NoArg, Result(data, TRUE, 0))
    /\ UNCHANGED <<data, visGroups, visItems, panels, readOnly, dialog, customTimes>>

AddGroup ==
    \E name \in NameInputs :
        StoreOp("addGroup", [name |-> name],
                   addGroup(data, name, uuidv4(IdsOf(data.groups))))

RemoveGroup ==
    \E id \in IdsOf(data.groups) \cup {AbsentId} :
        StoreOp("removeGroup", [id |-> id], removeGroup(data, id))

RenameGroup ==
    \E id \in IdsOf(data.groups) \cup {AbsentId}, name \in NameInputs :
        StoreOp("renameGroup", [id |-> id, name |-> name],
                renameGroup(data, id, name))

ToggleGroupVisibility ==
    \E id \in IdsOf(data.groups) \cup {AbsentId} :
        StoreOp("toggleGroupVisibility", [id |-> id],
                toggleGroupVisibility(data, id))

AddItem ==
    \E item \in ItemInputs :
        StoreOp("addItem", [item |-> item], addItem(data, item))

UpdateItem ==
    \E item \in ItemInputs :
        StoreOp("updateItem", [item |-> item], updateItem(data, item))

RemoveItem ==
    \E item \in ItemInputs :
        StoreOp("removeItem", [item |-> item], removeItem(data, item))

AddMarker ==
    \E uuid \in MarkerIds, name \in MarkerNames, date \in DateInputs :
        StoreOp("addMarker", [uuid |-> uuid, name |-> name, date |-> date],
                addMarker(data, uuid, name, date))

RemoveMarker ==
    \E uuid \in MarkerIds :
        StoreOp("removeMarker", [uuid |-> uuid], removeMarker(data, uuid))

UpdateMarker ==
    \E uuid \in MarkerIds, name \in {"", "Other"}, date \in {Null, DateObj(2)} :
        StoreOp("updateMarker", [uuid |-> uuid, name |-> name, date |-> date],
                updateMarker(data, uuid, name, date))

AddEra ==
    \E uuid \in EraIds, startDate \in DateInputs, endDate \in DateInputs :
        StoreOp("addEra",
                [uuid |-> uuid, text |-> "New era", start |-> startDate,
                 end |-> endDate, color |-> "#cccccc"],
                addEra(data, uuid, "New era", startDate, endDate, "#cccccc"))

RemoveEra ==
    \E uuid \in EraIds :
        StoreOp("removeEra", [uuid |-> uuid], removeEra(data, uuid))

UpdateEra ==
    \E uuid \in EraIds, text \in {"", "t2"}, startDate \in {Null, DateObj(2)},
       endDate \in {Null, DateObj(1)} :
        StoreOp("updateEra",
                [uuid |-> uuid, text |-> text, start |-> startDate,
                 end |-> endDate, color |-> ""],
                updateEra(data, uuid, text, startDate, endDate, ""))

ToggleEraVisibility ==
    \E uuid \in EraIds :
        StoreOp("toggleEraVisibility", [uuid |-> uuid],
                toggleEraVisibility(data, uuid))

\* A refresh that ends with the inference of #updateRange, made anew from
\* the items of the widget.
RefreshAndRange ==
    /\ visGroups' = refresh(data).groups
    /\ visItems' = refresh(data).items
    /\ data' = updateRange([data EXCEPT !.configuration =
                                Delete(Delete(@, "startDate"), "endDate")],
                           refresh(data).items)
    /\ last' = Record("refresh", NoArg, Result(data, TRUE, 0))
    /\ UNCHANGED <<storage, panels, readOnly, dialog, customTimes>>

\* Timeline.refresh() called by Application (a panel was closed).
Refresh ==
    /\ visGroups' = refresh(data).groups
    /\ visItems' = refresh(data).items
    /\ last' = Record("refresh", NoArg, Result(data, TRUE, 0))
    /\ UNCHANGED <<storage, data, panels, readOnly, dialog, customTimes>>

\* A colour input of the categories panel changed: the field is assigned,
\* then panel.resetStylesheet() makes Application refresh the timeline.
CategoryEdit(op, category, value, d) ==
    /\ data' = d
    /\ visGroups' = refresh(d).groups
    /\ visItems' = refresh(d).items
    /\ last' = Record(op, [category |-> category, value |-> value],
                      Result(d, TRUE, 0))
    /\ panels' = [panels EXCEPT !.categories[category] =
                     [f \in DOMAIN @ |->
                         IF d.item_categories[category][f]
                               # data.item_categories[category][f]
                         THEN value ELSE @[f]]]
    /\ UNCHANGED <<storage, readOnly, dialog, customTimes>>

OnForegroundChanged ==
    \E category \in DOMAIN data.item_categories, value \in ColorInputs :
        CategoryEdit("onForegroundChanged", category, value,
                     onForegroundChanged(data, category, value))

OnBackgroundChanged ==
    \E category \in DOMAIN data.item_categories, value \in ColorInputs :
        CategoryEdit("onBackgroundChanged", category, value,
                     onBackgroundChanged(data, category, value))

OnBorderChanged ==
    \E category \in DOMAIN data.item_categories, value \in ColorInputs :
        CategoryEdit("onBorderChanged", category, value,
                     onBorderChanged(data, category, value))

RECURSIVE liPaths(_)
\* The li elements of the list of the groups panel, each by the indexes
\* that lead to it.
liPaths(list) ==
    UNION {{<<i>>} \cup {<<i>> \o p : p \in liPaths(list[i].childs)} :
              i \in 1..Len(list)}

RECURSIVE olAt(_, _)
\* The ol of the li at path (the root ol for the empty path): every li holds
\* one, empty when the group has no child.
olAt(list, path) ==
    IF path = <<>> THEN list ELSE olAt(list[path[1]].childs, Tail(path))

RECURSIVE withoutLi(_, _)
\* The list once the dragged li left its ol.
withoutLi(list, path) ==
    IF Len(path) = 1
    THEN SubSeq(list, 1, path[1] - 1) \o SubSeq(list, path[1] + 1, Len(list))
    ELSE [list EXCEPT ![path[1]].childs = withoutLi(@, Tail(path))]

RECURSIVE withLi(_, _, _, _)
\* The list once li is dropped at index of the ol at path.
withLi(list, path, index, li) ==
    IF path = <<>>
    THEN SubSeq(list, 1, index - 1) \o <<li>> \o SubSeq(list, index, Len(list))
    ELSE [list EXCEPT ![path[1]].childs = withLi(@, Tail(path), index, li)]

\* The sort callback of PanelGroups.#toHtml after a drag: every ol is a
\* Sortable of one group of lists, so an li may be dropped in any ol, its
\* own place included; then panel.json.data.groups = panel.fromHtml().
OnGroupsSorted ==
    \E from \in liPaths(panels.groups) :
        LET li == olAt(panels.groups, SubSeq(from, 1, Len(from) - 1))[from[Len(from)]]
            rest == withoutLi(panels.groups, from)
        IN \E to \in {<<>>} \cup liPaths(rest) :
              \E index \in 1..(Len(olAt(rest, to)) + 1) :
                 LET list == withLi(rest, to, index, li)
                 IN /\ panels' = [panels EXCEPT !.groups = list]
                    /\ data' = [data EXCEPT !.groups = fromHtml(list)]
                    /\ last' = Record("onGroupsSorted",
                                      [from |-> from, to |-> to, index |-> index],
                                      Result(data, TRUE, 0))
                    /\ UNCHANGED <<storage, visGroups, visItems, readOnly, dialog, customTimes>>

\* The values of the era popup: dates are the strings of the date inputs.
EraForms ==
    {[text |-> "t2", start |-> IsoString(b), end |-> IsoString(e), color |-> "#222222"]
        : b \in Times, e \in Times}

\* PanelEras.onEditEra confirmed: the four fields are assigned on the era
\* that getEra returned, then updateEra(uuid, text, start, end) is called.
OnEditEra ==
    \E uuid \in DOMAIN panels.eras, form \in EraForms :
        /\ getEra(data, uuid) # Null
        /\ LET assigned == [data EXCEPT !.eras.entries[uuid] =
                               [@ EXCEPT !.text = form.text, !.start = form.start,
                                         !.end = form.end, !.color = form.color]]
               r == updateEra(assigned, uuid, form.text, form.start, form.end, "")
           IN /\ data' = r.data
              /\ panels' = panelsAfter("updateEra", r, panels)
              /\ visGroups' = refresh(r.data).groups
              /\ visItems' = refresh(r.data).items
              /\ last' = Record("onEditEra", [uuid |-> uuid, form |-> form], r)
        /\ UNCHANGED <<storage, readOnly, dialog, customTimes>>

\* The change handlers of the two date inputs of PanelConfiguration.
ConfigurationEdit(op, field, value) ==
    /\ data' = [data EXCEPT !.configuration = Put(@, field, value)]
    /\ panels' = [panels EXCEPT !.configuration[field] = value]
    /\ last' = Record(op, [value |-> value], Result(data, TRUE, 0))
    /\ UNCHANGED <<storage, visGroups, visItems, readOnly, dialog, customTimes>>

OnStartDateChanged ==
    \E value \in Times : ConfigurationEdit("onStartDateChanged", "startDate", value)

OnEndDateChanged ==
    \E value \in Times : ConfigurationEdit("onEndDateChanged", "endDate", value)

---------------------------------------------------------------------------
(* Timeline: lock mode and the callbacks of the widget *)

\* No item callback awaits a popup.
NoDialog == [callback |-> "none"]

\* A step that calls no Json method.
NoCall(op, arg) ==
    [op |-> op, arg |-> arg, ret |-> FALSE, notified |-> 0, raised |-> FALSE,
     answered |-> NotCalled]

\* Timeline.toggleLockStatus(): the flag, the widget's editable option, the
\* markers, then refresh().
ToggleLockStatus ==
    /\ readOnly' = ~readOnly
    /\ visGroups' = refresh(data).groups
    /\ visItems' = refresh(data).items
    /\ last' = NoCall("toggleLockStatus", NoArg)
    /\ UNCHANGED <<storage, data, panels, dialog, customTimes>>

\* The widget's option editable, as the constructor and toggleLockStatus set it.
editable == ~readOnly

\* The items of the widget that a gesture can select.
selectable ==
    {visItems[i] : i \in {j \in 1..Len(visItems) :
                             ~("type" \in DOMAIN visItems[j]
                                  /\ visItems[j].type = "background")}}

\* onAdd, onUpdate, onRemove up to their await: the widget calls them while
\* it is editable, and the popup opens.
OpenDialog(callback, item) ==
    /\ editable
    /\ dialog = NoDialog
    /\ dialog' = [callback |-> callback, item |-> item]
    /\ last' = NoCall(callback, [item |-> item])
    /\ UNCHANGED <<storage, data, visGroups, visItems, panels, readOnly,
                    customTimes>>

\* A double click on an empty place of the widget.
OnAdd ==
    \E id \in ItemIds, t \in Times :
        OpenDialog("onAdd", [id |-> id, content |-> "new item", start |-> DateObj(t),
                             type |-> "point"])

\* A double click on an item.
OnUpdate == \E item \in selectable : OpenDialog("onUpdate", item)

\* The delete cross of an item.
OnRemove == \E item \in selectable : OpenDialog("onRemove", item)

\* showAddUpdateItemPopup confirmed: the form values set on the item.
confirmedItem(item) ==
    [f \in DOMAIN item \cup {"content", "className", "description", "type", "start"} |->
        CASE f = "content" -> "x2"
          [] f = "className" -> "c2"
          [] f = "description" -> "d2"
          [] f = "type" -> "point"
          [] f = "start" -> DateObj(2)
          [] OTHER -> item[f]]

\* The function of the widget called whatever the Json method returned.
answerAlways(r, item) == Called(item)

\* if(this.#json.addItem(item)) { callback(item); } and alike: the function
\* of the widget is called with the item when the Json method returned true.
answer(r, item) == IF r.ret THEN Called(item) ELSE NotCalled

\* The Json method of an item callback, then the call of the widget's
\* function.
ItemCallback(op, arg, r) ==
    /\ StoreEffects(op, r)
    /\ last' = [Record(op, arg, r) EXCEPT !.answered = answer(r, arg.item)]
    /\ UNCHANGED customTimes

\* The popup is closed and the callback runs on from its await; a cancelled
\* remove popup ends in callback(null).
ResolveDialog ==
    /\ dialog # NoDialog
    /\ dialog' = NoDialog
    /\ \E confirmed \in BOOLEAN :
          LET item == IF confirmed THEN confirmedItem(dialog.item) ELSE Null
              arg == [item |-> item, callback |-> dialog.callback]
          IN CASE dialog.callback = "onAdd" ->
                     ItemCallback("addItem", arg, addItem(data, item))
               [] dialog.callback = "onUpdate" ->
                     ItemCallback("updateItem", arg, updateItem(data, item))
               [] dialog.callback = "onRemove" ->
                     IF confirmed
                     THEN ItemCallback("removeItem", [arg EXCEPT !.item = dialog.item],
                                       removeItem(data, dialog.item))
                     ELSE /\ last' = [NoCall("onRemove", arg)
                                         EXCEPT !.answered = Called(Null)]
                          /\ UNCHANGED <<storage, data, visGroups, visItems,
                                         panels, readOnly, customTimes>>

\* onMove: an item was dragged to another date.
OnMove ==
    /\ editable
    /\ \E item \in selectable, t \in Times :
          LET dragged == Put(item, "start", DateObj(t))
          IN /\ ItemCallback("updateItem", [item |-> dragged, callback |-> "onMove"],
                             updateItem(data, dragged))
             /\ UNCHANGED dialog

\* A Timeline callback that returns at once in read-only mode.
Guarded(callback, arg, call) ==
    IF readOnly
    THEN /\ last' = NoCall(callback, arg)
         /\ UNCHANGED <<storage, data, visGroups, visItems, panels, readOnly,
                        dialog, customTimes>>
    ELSE call

\* A Json method called by a callback of the markers.
MarkerCall(op, arg, r) == StoreCall(op, arg, r) /\ UNCHANGED dialog

\* #onDoubleClicked on a custom time bar: removeMarker, then
\* removeCustomTime; or on the axis: addMarker of a new uuid, then
\* addCustomTime.
OnDoubleClicked ==
    \/ \E id \in customTimes :
          Guarded("onDoubleClicked", [what |-> "custom-time", uuid |-> id],
                  /\ MarkerCall("removeMarker",
                                [uuid |-> id, callback |-> "onDoubleClicked"],
                                removeMarker(data, id))
                  /\ customTimes' = IF removeMarker(data, id).ret
                                    THEN customTimes \ {id} ELSE customTimes)
    \/ \E id \in MarkerIds \ (DOMAIN data.markers \cup customTimes), t \in Times :
          Guarded("onDoubleClicked", [what |-> "axis", uuid |-> id],
                  /\ MarkerCall("addMarker",
                                [uuid |-> id, name |-> "New event", date |-> DateObj(t),
                                 callback |-> "onDoubleClicked"],
                                addMarker(data, id, "New event", DateObj(t)))
                  /\ customTimes' = IF addMarker(data, id, "New event", DateObj(t)).ret
                                    THEN customTimes \cup {id} ELSE customTimes)

\* #onMarkerTitleChange of a custom time bar: updateMarker(id, title, null).
OnMarkerTitleChange ==
    \E id \in customTimes, title \in {"Other"} :
        Guarded("onMarkerTitleChange", [uuid |-> id],
                StoreOp("updateMarker",
                        [uuid |-> id, name |-> title, date |-> Null,
                         callback |-> "onMarkerTitleChange"],
                        updateMarker(data, id, title, Null)))

\* #onMarkerDateChange of a custom time bar: updateMarker(id, null, time);
\* the null name is given as the empty string, which the test of
\* updateMarker treats alike.
OnMarkerDateChange ==
    \E id \in customTimes, t \in Times :
        Guarded("onMarkerDateChange", [uuid |-> id],
                StoreOp("updateMarker",
                        [uuid |-> id, name |-> "", date |-> DateObj(t),
                         callback |-> "onMarkerDateChange"],
                        updateMarker(data, id, "", DateObj(t))))

---------------------------------------------------------------------------
(* Specifications *)

\* The state once Application is constructed over file s: Json loaded it,
\* Timeline refreshed from it and #updateRange filled the display window.
Constructed(s) ==
    /\ storage = s
    /\ data = updateRange(load(s).data, refresh(load(s).data).items)
    /\ visGroups = refresh(load(s).data).groups
    /\ visItems = refresh(load(s).data).items
    /\ last = Record("new", NoArg, load(s))
    /\ steps = 0
    /\ panels = rendered(updateRange(load(s).data, refresh(load(s).data).items))
    /\ readOnly = FALSE
    /\ dialog = NoDialog
    /\ customTimes = DOMAIN load(s).data.markers

Init == \E s \in Storages : Constructed(s)

\* Started on an absent file or on the complete sample document.
InitSample == \E s \in {FileMissing, FileObject(FullDoc)} : Constructed(s)

\* One more operation of a run of at most max operations.
Tick(max) == steps < max /\ steps' = steps + 1

\* Every operation, in runs of at most MaxSteps operations.
Next ==
    \/ Tick(MaxSteps) /\ OnGroupsSorted
    \/ Tick(MaxSteps) /\ OnEditEra
    \/ Tick(MaxSteps) /\ OnStartDateChanged
    \/ Tick(MaxSteps) /\ OnEndDateChanged
    \/ Tick(MaxSteps) /\ ToggleLockStatus
    \/ Tick(MaxSteps) /\ OnAdd
    \/ Tick(MaxSteps) /\ OnUpdate
    \/ Tick(MaxSteps) /\ OnRemove
    \/ Tick(MaxSteps) /\ ResolveDialog
    \/ Tick(MaxSteps) /\ OnMove
    \/ Tick(MaxSteps) /\ OnDoubleClicked
    \/ Tick(MaxSteps) /\ OnMarkerTitleChange
    \/ Tick(MaxSteps) /\ OnMarkerDateChange
    \/ Tick(MaxSteps) /\ Load
    \/ Tick(MaxSteps) /\ Save
    \/ Tick(MaxSteps) /\ Refresh
    \/ Tick(MaxSteps) /\ AddGroup
    \/ Tick(MaxSteps) /\ RemoveGroup
    \/ Tick(MaxSteps) /\ RenameGroup
    \/ Tick(MaxSteps) /\ ToggleGroupVisibility
    \/ Tick(MaxSteps) /\ AddItem
    \/ Tick(MaxSteps) /\ UpdateItem
    \/ Tick(MaxSteps) /\ RemoveItem
    \/ Tick(MaxSteps) /\ AddMarker
    \/ Tick(MaxSteps) /\ RemoveMarker
    \/ Tick(MaxSteps) /\ UpdateMarker
    \/ Tick(MaxSteps) /\ AddEra
    \/ Tick(MaxSteps) /\ RemoveEra
    \/ Tick(MaxSteps) /\ UpdateEra
    \/ Tick(MaxSteps) /\ ToggleEraVisibility
    \/ Tick(MaxSteps) /\ OnForegroundChanged
    \/ Tick(MaxSteps) /\ OnBackgroundChanged
    \/ Tick(MaxSteps) /\ OnBorderChanged

Spec == Init /\ [][Next]_vars

\* Reload, save and every Json operation, in runs of MaxTripSteps operations.
NextRoundTrip ==
    \/ Tick(MaxTripSteps) /\ Load
    \/ Tick(MaxTripSteps) /\ Save
    \/ Tick(MaxTripSteps) /\ AddGroup
    \/ Tick(MaxTripSteps) /\ RemoveGroup
    \/ Tick(MaxTripSteps) /\ RenameGroup
    \/ Tick(MaxTripSteps) /\ ToggleGroupVisibility
    \/ Tick(MaxTripSteps) /\ AddItem
    \/ Tick(MaxTripSteps) /\ UpdateItem
    \/ Tick(MaxTripSteps) /\ RemoveItem
    \/ Tick(MaxTripSteps) /\ AddMarker
    \/ Tick(MaxTripSteps) /\ RemoveMarker
    \/ Tick(MaxTripSteps) /\ UpdateMarker
    \/ Tick(MaxTripSteps) /\ AddEra
    \/ Tick(MaxTripSteps) /\ RemoveEra
    \/ Tick(MaxTripSteps) /\ UpdateEra
    \/ Tick(MaxTripSteps) /\ ToggleEraVisibility

SpecRoundTrip == Init /\ [][NextRoundTrip]_vars

\* The group operations.
NextGroups ==
    \/ Tick(MaxGroupSteps) /\ AddGroup
    \/ Tick(MaxGroupSteps) /\ RemoveGroup
    \/ Tick(MaxGroupSteps) /\ RenameGroup
    \/ Tick(MaxGroupSteps) /\ ToggleGroupVisibility

SpecGroups == Init /\ [][NextGroups]_vars

\* addGroup and removeGroup only.
NextGroupList ==
    \/ Tick(MaxGroupSteps) /\ AddGroup
    \/ Tick(MaxGroupSteps) /\ RemoveGroup

SpecGroupList == Init /\ [][NextGroupList]_vars

\* The item operations and the category panel.
NextItems ==
    \/ Tick(MaxItemSteps) /\ AddItem
    \/ Tick(MaxItemSteps) /\ UpdateItem
    \/ Tick(MaxItemSteps) /\ RemoveItem
    \/ Tick(MaxItemSteps) /\ OnForegroundChanged
    \/ Tick(MaxItemSteps) /\ OnBackgroundChanged
    \/ Tick(MaxItemSteps) /\ OnBorderChanged

SpecItems == InitSample /\ [][NextItems]_vars

\* The marker operations.
NextMarkers ==
    \/ Tick(MaxMarkerSteps) /\ AddMarker
    \/ Tick(MaxMarkerSteps) /\ RemoveMarker
    \/ Tick(MaxMarkerSteps) /\ UpdateMarker

SpecMarkers == InitSample /\ [][NextMarkers]_vars

\* The era operations and the refresh of the timeline.
NextEras ==
    \/ Tick(MaxEraSteps) /\ AddEra
    \/ Tick(MaxEraSteps) /\ RemoveEra
    \/ Tick(MaxEraSteps) /\ UpdateEra
    \/ Tick(MaxEraSteps) /\ ToggleEraVisibility
    \/ Tick(MaxEraSteps) /\ Refresh

SpecEras == InitSample /\ [][NextEras]_vars

\* Forests of four groups in three shapes, with every choice of positions.
SortPositions == {1, 2}

SortGroup(id, p, childs) == Group(id, id, p[id], JsTrue, childs)

SortForests ==
    UNION {{ << SortGroup("g1", p, <<>>), SortGroup("g2", p, <<>>),
                SortGroup("g3", p, <<>>), SortGroup("g4", p, <<>>) >>,
             << SortGroup("g1", p, << SortGroup("g2", p, <<>>),
                                      SortGroup("g3", p, <<>>) >>),
                SortGroup("g4", p, <<>>) >>,
             << SortGroup("g1", p,
                          << SortGroup("g2", p, << SortGroup("g3", p, <<>>),
                                                   SortGroup("g4", p, <<>>) >>) >>) >> }
           : p \in [GroupIds -> SortPositions]}

\* Started on a file that holds one of the forests.
InitSort ==
    \E forest \in SortForests :
        Constructed(FileObject([FullDoc EXCEPT !.groups = forest]))

\* Reloads and saves between changes of the group list.
NextSort ==
    \/ Tick(MaxSortSteps) /\ Load
    \/ Tick(MaxSortSteps) /\ Save
    \/ Tick(MaxSortSteps) /\ AddGroup
    \/ Tick(MaxSortSteps) /\ RemoveGroup

SpecSort == InitSort /\ [][NextSort]_vars

\* The lock button and the callbacks of the widget.
NextLock ==
    \/ Tick(MaxLockSteps) /\ ToggleLockStatus
    \/ Tick(MaxLockSteps) /\ OnAdd
    \/ Tick(MaxLockSteps) /\ OnUpdate
    \/ Tick(MaxLockSteps) /\ OnRemove
    \/ Tick(MaxLockSteps) /\ ResolveDialog
    \/ Tick(MaxLockSteps) /\ OnMove
    \/ Tick(MaxLockSteps) /\ OnDoubleClicked
    \/ Tick(MaxLockSteps) /\ OnMarkerTitleChange
    \/ Tick(MaxLockSteps) /\ OnMarkerDateChange

SpecLock == InitSample /\ [][NextLock]_vars

\* The buttons, the panels and the widget without a popup left open.
NextPanels ==
    \/ Tick(MaxPanelSteps) /\ Load
    \/ Tick(MaxPanelSteps) /\ Save
    \/ Tick(MaxPanelSteps) /\ AddGroup
    \/ Tick(MaxPanelSteps) /\ RemoveGroup
    \/ Tick(MaxPanelSteps) /\ RenameGroup
    \/ Tick(MaxPanelSteps) /\ ToggleGroupVisibility
    \/ Tick(MaxPanelSteps) /\ OnGroupsSorted
    \/ Tick(MaxPanelSteps) /\ AddEra
    \/ Tick(MaxPanelSteps) /\ RemoveEra
    \/ Tick(MaxPanelSteps) /\ ToggleEraVisibility
    \/ Tick(MaxPanelSteps) /\ OnEditEra
    \/ Tick(MaxPanelSteps) /\ OnForegroundChanged
    \/ Tick(MaxPanelSteps) /\ OnBackgroundChanged
    \/ Tick(MaxPanelSteps) /\ OnBorderChanged
    \/ Tick(MaxPanelSteps) /\ OnStartDateChanged
    \/ Tick(MaxPanelSteps) /\ OnEndDateChanged
    \/ Tick(MaxPanelSteps) /\ OnMove
    \/ Tick(MaxPanelSteps) /\ OnDoubleClicked

SpecPanels == InitSample /\ [][NextPanels]_vars

\* Started on a file written by hand: items without their categories.
InitFiles ==
    \E s \in {FileMissing, FileObject(FullDoc), FileObject(ItemsOnlyDoc)} :
        Constructed(s)

\* Reloads and saves between item operations.
NextFiles ==
    \/ Tick(MaxFileSteps) /\ Load
    \/ Tick(MaxFileSteps) /\ Save
    \/ Tick(MaxFileSteps) /\ AddItem
    \/ Tick(MaxFileSteps) /\ UpdateItem
    \/ Tick(MaxFileSteps) /\ RemoveItem

SpecFiles == InitFiles /\ [][NextFiles]_vars

\* Started on the sample forest or on the forest with a repeated id.
InitRemove ==
    \E forest \in {SampleForest, DuplicateIdForest} :
        Constructed(FileObject([FullDoc EXCEPT !.groups = forest]))

\* Removals between other changes of the forest.
NextRemove ==
    \/ Tick(MaxRemoveSteps) /\ RemoveGroup
    \/ Tick(MaxRemoveSteps) /\ AddGroup
    \/ Tick(MaxRemoveSteps) /\ ToggleGroupVisibility

SpecRemove == InitRemove /\ [][NextRemove]_vars

\* The groups panel and the timeline: group operations of the panel's slots,
\* drags of the list, the load and save buttons, and the refresh that
\* Application runs when the panel is closed.
NextTree ==
    \/ Tick(MaxTreeSteps) /\ Load
    \/ Tick(MaxTreeSteps) /\ Save
    \/ Tick(MaxTreeSteps) /\ AddGroup
    \/ Tick(MaxTreeSteps) /\ RemoveGroup
    \/ Tick(MaxTreeSteps) /\ RenameGroup
    \/ Tick(MaxTreeSteps) /\ ToggleGroupVisibility
    \/ Tick(MaxTreeSteps) /\ OnGroupsSorted
    \/ Tick(MaxTreeSteps) /\ Refresh

SpecTree == InitSample /\ [][NextTree]_vars

\* The markers: the callbacks of the widget's custom time bars, updateMarker
\* called with any uuid, the lock button, the load and save buttons and a
\* method of Json that dispatches 'updated'.
NextWidget ==
    \/ Tick(MaxWidgetSteps) /\ OnDoubleClicked
    \/ Tick(MaxWidgetSteps) /\ OnMarkerTitleChange
    \/ Tick(MaxWidgetSteps) /\ OnMarkerDateChange
    \/ Tick(MaxWidgetSteps) /\ UpdateMarker
    \/ Tick(MaxWidgetSteps) /\ ToggleLockStatus
    \/ Tick(MaxWidgetSteps) /\ Load
    \/ Tick(MaxWidgetSteps) /\ Save
    \/ Tick(MaxWidgetSteps) /\ AddGroup

SpecWidget == InitSample /\ [][NextWidget]_vars

\* Started on a file with three root groups; then the group operations,
\* the drags of the groups panel and the load and save buttons.
InitOrder == Constructed(FileObject([FullDoc EXCEPT !.groups = ThreeRoots]))

NextOrder ==
    \/ Tick(MaxOrderSteps) /\ Load
    \/ Tick(MaxOrderSteps) /\ Save
    \/ Tick(MaxOrderSteps) /\ AddGroup
    \/ Tick(MaxOrderSteps) /\ RemoveGroup
    \/ Tick(MaxOrderSteps) /\ RenameGroup
    \/ Tick(MaxOrderSteps) /\ ToggleGroupVisibility
    \/ Tick(MaxOrderSteps) /\ OnGroupsSorted

SpecOrder == InitOrder /\ [][NextOrder]_vars

---------------------------------------------------------------------------
(* Claims *)

\* The argument item of the last item operation has an id.
HasId(item) == item # Null /\ "id" \in DOMAIN item

\* Number of groups of a forest with the given name and position.
CountNamedAt(groups, name, position) ==
    Cardinality({i \in 1..Len(Flatten(groups)) :
                    /\ Flatten(groups)[i].name = name
                    /\ Flatten(groups)[i].position = position})

\* C1: every successful mutation of the store (addGroup, removeGroup,
\* renameGroup, toggleGroupVisibility, addItem, updateItem, removeItem)
\* dispatches exactly one 'updated' event, whatever the depth of the group.
C1_OneNotificationPerMutation ==
    (/\ last.op \in {"addGroup", "removeGroup", "renameGroup",
                     "toggleGroupVisibility", "addItem", "updateItem",
                     "removeItem"}
     /\ last.ret)
        => last.notified = 1

\* Whether validation rejects item for operation op on document d.
FailsValidation(op, item, d) ==
    \/ ~HasId(item)
    \/ /\ op = "addItem"
       /\ \E i \in 1..Len(d.items) : d.items[i].id = item.id
    \/ /\ op \in {"updateItem", "removeItem"}
       /\ ~\E i \in 1..Len(d.items) : d.items[i].id = item.id

\* C2: an item operation that fails validation (null argument, no id,
\* addItem of an id in the list, updateItem or removeItem of an id not in
\* the list) returns false, leaves the whole document unchanged, dispatches
\* no event and raises no exception.
C2_RejectedItemOperation ==
    [][(/\ last'.op \in {"addItem", "updateItem", "removeItem"}
        /\ FailsValidation(last'.op, last'.arg.item, data))
          => (/\ last'.ret = FALSE
              /\ data' = data
              /\ last'.notified = 0
              /\ last'.raised = FALSE)]_vars

\* addItem was refused for an id that another item of the list has.
C2_Witness ==
    /\ last.op = "addItem"
    /\ HasId(last.arg.item)
    /\ last.ret = FALSE
    /\ \E i \in 1..Len(data.items) : data.items[i].id = last.arg.item.id

\* C3: removeGroup, renameGroup and toggleGroupVisibility of an id that no
\* group of the forest has return false, leave the forest equal and dispatch
\* no event; renameGroup with an empty name does so for an id that exists.
C3_UnknownGroupRejected ==
    [][(/\ last'.op \in {"removeGroup", "renameGroup", "toggleGroupVisibility"}
        /\ \/ last'.arg.id \notin IdsOf(data.groups)
           \/ last'.op = "renameGroup" /\ last'.arg.name = "")
          => (/\ last'.ret = FALSE
              /\ data'.groups = data.groups
              /\ last'.notified = 0)]_vars

\* renameGroup with an empty name was refused for a group of the forest.
C3_Witness ==
    /\ last.op = "renameGroup"
    /\ last.arg.name = ""
    /\ last.arg.id \in IdsOf(data.groups)
    /\ last.ret = FALSE

\* C4 as stated: after addGroup(name) with a non-empty name exactly one group
\* of the forest has that name and position = former root count + 1.
C4_ExactlyOneGroupNamedAtEnd ==
    [][(last'.op = "addGroup" /\ last'.arg.name # "")
          => CountNamedAt(data'.groups, last'.arg.name, Len(data.groups) + 1) = 1]_vars

\* C4 amended: after addGroup(name) with a non-empty name the root list is
\* the former one followed by one group with that name, position = former
\* root count + 1, visible and without children: one more group with that
\* name and position than before the call.
C4_GroupAppendedAtEnd ==
    [][(last'.op = "addGroup" /\ last'.arg.name # "")
          => LET n == Len(data.groups)
             IN /\ last'.ret = TRUE
                /\ Len(data'.groups) = n + 1
                /\ SubSeq(data'.groups, 1, n) = data.groups
                /\ data'.groups[n + 1].name = last'.arg.name
                /\ data'.groups[n + 1].position = n + 1
                /\ data'.groups[n + 1].childs = <<>>
                /\ data'.groups[n + 1].id \notin IdsOf(data.groups)
                /\ CountNamedAt(data'.groups, last'.arg.name, n + 1)
                      = CountNamedAt(data.groups, last'.arg.name, n + 1) + 1]_vars

\* addGroup appended a group whose name and position another group has.
C4_Witness ==
    /\ last.op = "addGroup"
    /\ last.ret = TRUE
    /\ CountNamedAt(data.groups, last.arg.name, Len(data.groups)) = 2

C6_PartialUpdate ==
    [][(last'.op = "updateItem" /\ last'.ret = TRUE)
          => LET input == last'.arg.item
                 index == indexOfItem(data.items, input.id)
                 old == data.items[index]
                 new == data'.items[index]
                 given == DOMAIN input \cap ItemFields
             IN /\ Len(data'.items) = Len(data.items)
                /\ \A j \in 1..Len(data.items) :
                      j # index => data'.items[j] = data.items[j]
                /\ new.id = old.id
                /\ DOMAIN new = DOMAIN old \cup given
                /\ \A f \in given : new[f] = input[f]
                /\ \A f \in DOMAIN old \ given : new[f] = old[f]]_vars

\* updateItem with id and start only reached an item that has content,
\* className and type.
C6_Witness ==
    /\ last.op = "updateItem"
    /\ last.ret = TRUE
    /\ DOMAIN last.arg.item = {"id", "start"}
    /\ \E i \in 1..Len(data.items) :
          /\ data.items[i].id = last.arg.item.id
          /\ data.items[i].start = last.arg.item.start
          /\ {"content", "className", "type"} \subseteq DOMAIN data.items[i]

\* C7: addMarker of a uuid that is a key of the markers returns false and
\* leaves the markers unchanged; of a new uuid it returns true and adds
\* that entry alone, with the name and date given.
C7_AddMarkerRejectsDuplicate ==
    [][last'.op = "addMarker"
          => IF last'.arg.uuid \in DOMAIN data.markers
             THEN last'.ret = FALSE /\ data'.markers = data.markers
             ELSE /\ last'.ret = TRUE
                  /\ DOMAIN data'.markers = DOMAIN data.markers \cup {last'.arg.uuid}
                  /\ data'.markers[last'.arg.uuid]
                        = [name |-> last'.arg.name, date |-> last'.arg.date]
                  /\ \A u \in DOMAIN data.markers :
                        data'.markers[u] = data.markers[u]]_vars

\* addMarker('m1', 'Other', ..) was refused and m1 is still named Launch.
C7_Witness ==
    /\ last.op = "addMarker"
    /\ last.ret = FALSE
    /\ last.arg.name = "Other"
    /\ data.markers[last.arg.uuid].name = "Launch"

\* Number of items of the widget's item set keyed by id.
CountItems(items, id) ==
    Cardinality({i \in 1..Len(items) : items[i].id = id})

\* The era's end is strictly after its start.
EndAfterStart(e) == getTime(e.end) > getTime(e.start)

datesAsJson(d) ==
    [d EXCEPT
        !.items = [i \in 1..Len(d.items) |-> jsonDates(d.items[i], {"start", "end"})],
        !.eras.entries = [u \in DOMAIN d.eras.entries |->
                             jsonDates(d.eras.entries[u], {"start", "end"})],
        !.markers = [u \in DOMAIN d.markers |-> jsonDates(d.markers[u], {"date"})]]

\* The six collections of a and b are equal, the groups of a once sorted by
\* position, a Date being equal to its ISO string.
RoundTripEqual(a, b) ==
    datesAsJson([a EXCEPT !.groups = sortGroups(a.groups)]) = datesAsJson(b)

\* C9: save followed by load yields a document whose six collections equal
\* those before the save, apart from the groups being sorted by position.
C9_SaveLoadRoundTrip ==
    [][(last.op = "save" /\ last'.op = "load")
          => RoundTripEqual(data, data')]_vars

\* C10: load ends without an exception for every content of the file,
\* dispatches exactly one event and leaves a document for which isValid()
\* is true; isValid() stays true under every operation.
C10_LoadLeavesValidDocument ==
    /\ isValid(data)
    /\ last.op \in {"new", "load"}
          => /\ last.notified = 1
             /\ last.raised = FALSE

\* A reload ran on a file whose group has no childs list and left the empty
\* document.
C10_Witness ==
    /\ last.op = "load"
    /\ storage = FileObject(NoChildsDoc)
    /\ isValid(data)
    /\ data.groups = <<>>
    /\ data.items = <<>>

\* The six top-level fields of the document.
TopLevelFields ==
    {"configuration", "groups", "items", "item_categories", "eras", "markers"}

\* C11: when the file parses to a record that lacks some of the six
\* top-level fields, load keeps every field that is present with its stored
\* content (the groups sorted) and fills in the others; a record without
\* groups keeps its items, categories, eras and markers.
C11_LoadKeepsPresentFields ==
    (/\ last.op = "load"
     /\ storage.kind = "object"
     /\ DOMAIN storage.doc # TopLevelFields
     /\ ("groups" \in DOMAIN storage.doc => ~sortGroupsThrows(storage.doc.groups)))
        => \A f \in DOMAIN storage.doc :
              data[f] = IF f = "groups" THEN sortGroups(storage.doc.groups)
                        ELSE storage.doc[f]

\* The file gives load no eras collection.
ErasBackfilled(s) == tryParse(s).threw \/ "eras" \notin DOMAIN tryParse(s).data

\* C12: a collection that load backfills has the shape of the data model
\* (eras and markers are string-keyed maps), so that the entry a later
\* addEra or addMarker puts under a uuid is part of the saved document.
C12_BackfilledShapes ==
    /\ (last.op = "load" /\ ErasBackfilled(storage))
          => data.eras = ErasObject(EmptyObject)
    /\ (last.op = "addEra" /\ last.ret = TRUE)
          => last.arg.uuid \in DOMAIN stringify(data).eras.entries
    /\ (last.op = "addMarker" /\ last.ret = TRUE)
          => last.arg.uuid \in DOMAIN stringify(data).markers

RECURSIVE SiblingLists(_)
\* The root list of a forest and the childs list of each of its groups.
SiblingLists(groups) ==
    {groups} \cup UNION {SiblingLists(groups[i].childs) : i \in 1..Len(groups)}

\* <<a, b>> for a before b in one sibling list.
OrderPairs(groups) ==
    UNION {UNION {{<<l[i].id, l[j].id>> : j \in (i + 1)..Len(l)} : i \in 1..Len(l)}
           : l \in SiblingLists(groups)}

\* <<child, parent>> for every group that has a parent.
ParentPairs(groups) ==
    UNION {{<<Flatten(groups)[i].childs[j].id, Flatten(groups)[i].id>>
               : j \in 1..Len(Flatten(groups)[i].childs)}
           : i \in 1..Len(Flatten(groups))}

\* The groups of a forest without their childs lists.
GroupFields(groups) ==
    {[f \in DOMAIN Flatten(groups)[i] \ {"childs"} |-> Flatten(groups)[i][f]]
        : i \in 1..Len(Flatten(groups))}

\* C13: after a load that parses, every sibling list is in ascending order
\* of position, siblings of equal position keep the order of the file, and
\* the groups and the parent of each are those of the file.
C13_LoadSortsEverySiblingList ==
    (/\ last.op \in {"new", "load"}
     /\ storage.kind = "object"
     /\ ~tryParse(storage).threw)
        => LET stored == storage.doc.groups
           IN /\ \A l \in SiblingLists(data.groups) :
                    \A i, j \in 1..Len(l) :
                       i < j => l[i].position <= l[j].position
              /\ \A l \in SiblingLists(stored) :
                    \A i, j \in 1..Len(l) :
                       (i < j /\ l[i].position = l[j].position)
                          => <<l[i].id, l[j].id>> \in OrderPairs(data.groups)
              /\ ParentPairs(data.groups) = ParentPairs(stored)
              /\ GroupFields(data.groups) = GroupFields(stored)

\* A load reordered the childs of a group below the root, with two siblings
\* of equal position in the file.
C13_Witness ==
    /\ last.op = "load"
    /\ storage.kind = "object"
    /\ ~tryParse(storage).threw
    /\ data.groups # storage.doc.groups
    /\ \E i \in 1..Len(Flatten(storage.doc.groups)) :
          LET l == Flatten(storage.doc.groups)[i].childs
          IN \E j, k \in 1..Len(l) : j < k /\ l[j].position > l[k].position
    /\ \E l \in SiblingLists(storage.doc.groups) :
          \E i, j \in 1..Len(l) : i < j /\ l[i].position = l[j].position

\* The Json methods that the callbacks of the widget call.
WidgetStoreOps ==
    {"addItem", "updateItem", "removeItem", "addMarker", "removeMarker",
     "updateMarker"}

\* C14: while the timeline is in read-only mode, no callback of the widget
\* (item add, update, remove, move; marker create, delete, rename, drag)
\* changes the document through a Json method, whatever the order of lock
\* toggles, widget events and popup resolutions.
C14_LockedWidgetMutatesNothing ==
    [][(/\ readOnly
        /\ "callback" \in DOMAIN last'.arg
        /\ last'.op \in WidgetStoreOps)
          => (last'.ret = FALSE /\ data' = data)]_vars

\* The ids of a list of items are pairwise distinct.
DistinctIds(items) ==
    \A i, j \in 1..Len(items) : i # j => items[i].id # items[j].id

\* C15: addItem, updateItem and removeItem keep the ids of the items list
\* pairwise distinct, and updateItem leaves the id of every item as it was.
C15_ItemIdsStayDistinct ==
    [][(/\ DistinctIds(data.items)
        /\ last'.op \in {"addItem", "updateItem", "removeItem"})
          => /\ DistinctIds(data'.items)
             /\ last'.op = "updateItem"
                   => /\ Len(data'.items) = Len(data.items)
                      /\ \A i \in 1..Len(data.items) :
                            data'.items[i].id = data.items[i].id]_vars

\* updateItem succeeded on a list of two items.
C15_Witness ==
    /\ last.op = "updateItem"
    /\ last.ret = TRUE
    /\ Len(data.items) = 2
    /\ DistinctIds(data.items)

\* C16: after load and any sequence of addItem, updateItem and removeItem,
\* every item that has a className has an entry under that key in the
\* categories.
C16_EveryClassNameHasCategory ==
    \A i \in 1..Len(data.items) :
        "className" \in DOMAIN data.items[i]
           => data.items[i].className \in DOMAIN data.item_categories

\* C17: apart from load, no operation of the store and no edit of a panel
\* removes a key of the categories: the key set only grows, also when
\* removeItem takes the last item of a className away or updateItem moves
\* an item to another className.
C17_CategoryKeysOnlyGrow ==
    [][last'.op # "load"
          => DOMAIN data.item_categories \subseteq DOMAIN data'.item_categories]_vars

\* A category that no item uses any more is still a key of the categories,
\* after removeItem or after updateItem gave the item another className.
C17_Witness ==
    /\ last.op \in {"removeItem", "updateItem"}
    /\ last.ret = TRUE
    /\ \E k \in DOMAIN data.item_categories :
          /\ k # ""
          /\ \A i \in 1..Len(data.items) :
                "className" \in DOMAIN data.items[i] => data.items[i].className # k
          /\ last.op = "updateItem" => "className" \in DOMAIN last.arg.item

RECURSIVE Outline(_, _, _)
\* The groups of a forest in traversal order (parents before children,
\* siblings in order), each with its fields, its depth and its parent's id.
Outline(groups, depth, parent) ==
    IF groups = <<>> THEN <<>>
    ELSE LET g == Head(groups)
         IN << [id |-> g.id, name |-> g.name, category |-> g.category,
                position |-> g.position, visible |-> g.visible,
                depth |-> depth, parent |-> parent] >>
               \o Outline(g.childs, depth + 1, g.id)
               \o Outline(Tail(groups), depth, parent)

\* Index of the first group with that id in the traversal.
FirstWithId(outline, id) ==
    CHOOSE k \in 1..Len(outline) :
        /\ outline[k].id = id
        /\ \A j \in 1..(k - 1) : outline[j].id # id

\* Index of the last descendant of the group at index k (k without any).
LastBelow(outline, k) ==
    CHOOSE m \in k..Len(outline) :
        /\ \A j \in (k + 1)..m : outline[j].depth > outline[k].depth
        /\ m < Len(outline) => outline[m + 1].depth <= outline[k].depth

\* C18: removeGroup(id) of an id of the forest returns true and removes the
\* first group with that id in the traversal (parents before children,
\* siblings in order) together with its descendants; every other group
\* keeps its fields, its position, its parent and its place among its
\* siblings.
C18_RemovesFirstMatchAndSubtree ==
    [][(last'.op = "removeGroup" /\ last'.arg.id \in IdsOf(data.groups))
          => LET before == Outline(data.groups, 1, NoParent)
                 k == FirstWithId(before, last'.arg.id)
                 m == LastBelow(before, k)
             IN /\ last'.ret = TRUE
                /\ Outline(data'.groups, 1, NoParent)
                      = SubSeq(before, 1, k - 1) \o SubSeq(before, m + 1, Len(before))]_vars

\* removeGroup took a group with a child from below the root while a group
\* later in the traversal has the same id and is still there.
C18_Witness ==
    /\ last.op = "removeGroup"
    /\ last.ret = TRUE
    /\ last.arg.id \in IdsOf(data.groups)
    /\ Len(data.groups) = 2
    /\ data.groups[1].childs # <<>>
    /\ data.groups[1].childs[1].childs = <<>>
    /\ data.groups[2].id = last.arg.id

\* The methods of Json that change the document.
JsonMethods ==
    {"load", "addGroup", "removeGroup", "renameGroup", "toggleGroupVisibility",
     "addItem", "updateItem", "removeItem", "addMarker", "removeMarker",
     "updateMarker", "addEra", "removeEra", "updateEra", "toggleEraVisibility"}

\* C19: every change of a field of the document is the work of a method of
\* Json; no handler of the timeline or of a panel changes the document except
\* by the method it calls.
C19_DocumentChangedByJsonOnly ==
    [][data' # data => last'.op \in JsonMethods]_vars

RECURSIVE ShownGroups(_)
\* What the list of the groups panel shows: names, eye icons, nesting, order.
ShownGroups(list) ==
    [i \in 1..Len(list) |->
        [id |-> list[i].id, name |-> list[i].name, eye |-> list[i].eye,
         childs |-> ShownGroups(list[i].childs)]]

\* C20: after every 'updated' event of the store, also the one of a reload
\* through the load button, each of the four panels shows the content of its
\* part of the document.
C20_PanelsFollowNotifications ==
    last.notified > 0
       => /\ ShownGroups(panels.groups) = ShownGroups(rebuildGroups(data))
          /\ panels.categories = rebuildCategories(data)
          /\ panels.eras = rebuildEras(data)
          /\ panels.configuration = reset(data)

RECURSIVE Lineage(_, _, _, _)
\* The groups of a forest in traversal order, each with its depth, its
\* position, its parent's id and whether it and all the groups above it are
\* visible.
Lineage(groups, depth, parent, shown) ==
    IF groups = <<>> THEN <<>>
    ELSE LET g == Head(groups)
             s == shown /\ Truthy(g.visible)
         IN << [id |-> g.id, depth |-> depth, position |-> g.position,
                parent |-> parent, own |-> Truthy(g.visible), shown |-> s] >>
               \o Lineage(g.childs, depth + 1, g.id, s)
               \o Lineage(Tail(groups), depth, parent, shown)

\* The list #fromJsonGroups makes of the forest of the document.
FlatGroups == fromJsonGroups(data.groups, 1, NoParent)

\* C21: the flat list of groups made from the forest holds a record for a
\* group exactly when the group and every group above it are visible; a
\* hidden group gives no record for itself nor for any group below it,
\* whatever their own visibility.
C21_HiddenSubtreeSkipped ==
    LET line == Lineage(data.groups, 1, NoParent, TRUE)
    IN /\ \A k \in 1..Len(line) :
             line[k].shown <=> \E i \in 1..Len(FlatGroups) : FlatGroups[i].id = line[k].id
       /\ \A i \in 1..Len(FlatGroups) :
             \E k \in 1..Len(line) : line[k].id = FlatGroups[i].id

\* A refresh ran on a forest in which a visible group lies below a hidden one.
C21_Witness ==
    /\ last.op \in {"toggleGroupVisibility", "refresh"}
    /\ visGroups = FlatGroups
    /\ \E k \in 1..Len(Lineage(data.groups, 1, NoParent, TRUE)) :
          LET g == Lineage(data.groups, 1, NoParent, TRUE)[k]
          IN g.own /\ ~g.shown

\* Number of times id is in a list of ids.
CountId(ids, id) == Cardinality({n \in 1..Len(ids) : ids[n] = id})

\* C22: the flat list of groups follows the traversal of the forest, parents
\* before children and siblings in order, over the groups that are shown;
\* each record has the depth of its group as treeLevel (1 at the root) and
\* the position of its group; it names a parent exactly when its group is
\* not a root group, and then the parent's record comes earlier in the list
\* and has the id of the child once in its nestedGroups.
C22_FlatListInPreOrder ==
    LET line == SelectSeq(Lineage(data.groups, 1, NoParent, TRUE),
                          LAMBDA g : g.shown)
    IN /\ Len(FlatGroups) = Len(line)
       /\ \A i \in 1..Len(FlatGroups) :
             LET r == FlatGroups[i]
             IN /\ r.id = line[i].id
                /\ r.treeLevel = line[i].depth
                /\ r.position = line[i].position
                /\ "nestedInGroup" \in DOMAIN r <=> line[i].depth > 1
                /\ line[i].depth > 1 =>
                      /\ r.nestedInGroup = line[i].parent
                      /\ \E j \in 1..(i - 1) :
                            /\ FlatGroups[j].id = r.nestedInGroup
                            /\ "nestedGroups" \in DOMAIN FlatGroups[j]
                            /\ CountId(FlatGroups[j].nestedGroups, r.id) = 1

\* The timeline was refreshed on a forest whose flat list has a record of
\* the third level and, after it, a record of a root group.
C22_Witness ==
    /\ last.op \in {"addGroup", "refresh"}
    /\ visGroups = FlatGroups
    /\ \E i, j \in 1..Len(visGroups) :
          /\ i < j
          /\ visGroups[i].treeLevel = 3
          /\ visGroups[j].treeLevel = 1

RECURSIVE Nesting(_)
\* The groups of a forest, or of the list of the panel, by id and name, in
\* their order and with their nesting.
Nesting(list) ==
    [i \in 1..Len(list) |->
        [id |-> list[i].id, name |-> list[i].name,
         childs |-> Nesting(list[i].childs)]]

\* C23: after a drop in the groups panel, the forest of the store has the
\* groups of the panel in the order and the nesting the panel shows, and in
\* every sibling list, at the root and below, the positions are 1, 2, ..., n
\* in the order of the list.
C23_DropWritesPanelOrder ==
    last.op = "onGroupsSorted"
       => /\ Nesting(data.groups) = Nesting(panels.groups)
          /\ \A l \in SiblingLists(data.groups) :
                \A i \in 1..Len(l) : l[i].position = i

\* A group was dropped from the root list into the list of another group,
\* before a group that was already there.
C23_Witness ==
    /\ last.op = "onGroupsSorted"
    /\ Len(last.arg.from) = 1
    /\ last.arg.to # <<>>
    /\ last.arg.index = 1
    /\ Len(olAt(panels.groups, last.arg.to)) > 1

\* The groups of a forest by id, name, category and visibility.
Kept(groups) ==
    {[id |-> Flatten(groups)[i].id, name |-> Flatten(groups)[i].name,
      category |-> Flatten(groups)[i].category,
      visible |-> Truthy(Flatten(groups)[i].visible)] :
        i \in 1..Len(Flatten(groups))}

\* C24: a drop in a groups panel that shows the forest of the store changes
\* order, nesting and positions only: every group keeps its id, its name,
\* its category and its visibility, so the flat list of the next refresh
\* has no record for a group that was hidden before the drop.
C24_DropKeepsVisibility ==
    [][(last'.op = "onGroupsSorted" /\ panels.groups = rebuildGroups(data))
          => /\ Kept(data'.groups) = Kept(data.groups)
             /\ \A g \in Kept(data.groups) :
                   ~g.visible
                      => \A i \in 1..Len(fromJsonGroups(data'.groups, 1, NoParent)) :
                            fromJsonGroups(data'.groups, 1, NoParent)[i].id # g.id]_vars

\* The marker methods of Json.
MarkerMethods == {"addMarker", "removeMarker", "updateMarker"}

\* C25: on a marker of the document, the edit of its title changes its name
\* and leaves its date, and the drag of its bar changes its date and leaves
\* its name; updateMarker of a uuid that is no key of the markers returns
\* false and changes nothing; no marker method changes another marker or
\* another part of the document.
C25_MarkerEditsOneField ==
    [][last'.op \in MarkerMethods
          => LET uuid == last'.arg.uuid
                 known == uuid \in DOMAIN data.markers
                 by == IF "callback" \in DOMAIN last'.arg
                       THEN last'.arg.callback ELSE "none"
             IN /\ \A f \in DOMAIN data \ {"markers"} : data'[f] = data[f]
                /\ DOMAIN data' = DOMAIN data
                /\ \A u \in DOMAIN data.markers \ {uuid} :
                      u \in DOMAIN data'.markers /\ data'.markers[u] = data.markers[u]
                /\ DOMAIN data'.markers \subseteq DOMAIN data.markers \cup {uuid}
                /\ (last'.op = "updateMarker" /\ ~known)
                      => last'.ret = FALSE /\ data' = data
                /\ (by = "onMarkerTitleChange" /\ known)
                      => /\ data'.markers[uuid].date = data.markers[uuid].date
                         /\ data'.markers[uuid].name = last'.arg.name
                /\ (by = "onMarkerDateChange" /\ known)
                      => /\ data'.markers[uuid].name = data.markers[uuid].name
                         /\ data'.markers[uuid].date = last'.arg.date]_vars

\* The bar of a marker named Other was dragged to a new date, and another
\* marker is in the document.
C25_Witness ==
    /\ last.op = "updateMarker"
    /\ "callback" \in DOMAIN last.arg
    /\ last.arg.callback = "onMarkerDateChange"
    /\ last.ret = TRUE
    /\ data.markers[last.arg.uuid] = [name |-> "Other", date |-> last.arg.date]
    /\ DOMAIN data.markers # {last.arg.uuid}

\* The steps that set the display window: the load of a document and the two
\* date inputs of the configuration panel.
WindowSetters == {"load", "onStartDateChanged", "onEndDateChanged"}

\* The window #updateRange would infer from the items of the widget.
InferredWindow ==
    LET c == updateRange([data EXCEPT !.configuration = EmptyObject],
                         visItems).configuration
    IN [startDate |-> c.startDate, endDate |-> c.endDate]

\* C26: once configuration.startDate and configuration.endDate are set, no
\* refresh of the timeline and no group, item, era or marker operation
\* changes them; the window inferred at construction is not inferred again
\* when items are added, moved or removed.
C26_WindowSetOnce ==
    [][({"startDate", "endDate"} \subseteq DOMAIN data.configuration
           /\ last'.op \notin WindowSetters)
          => /\ {"startDate", "endDate"} \subseteq DOMAIN data'.configuration
             /\ data'.configuration.startDate = data.configuration.startDate
             /\ data'.configuration.endDate = data.configuration.endDate]_vars

\* An item operation left the widget with items whose bounds are not the
\* window of the configuration.
C26_Witness ==
    /\ last.op \in {"addItem", "updateItem", "removeItem"}
    /\ last.ret = TRUE
    /\ visItems = refresh(data).items
    /\ {"startDate", "endDate"} \subseteq DOMAIN data.configuration
    /\ InferredWindow # [startDate |-> data.configuration.startDate,
                         endDate |-> data.configuration.endDate]

\* The item callbacks of the widget.
ItemCallbacks == {"onAdd", "onUpdate", "onRemove", "onMove"}

\* The widget's function was called with an item: the widget keeps the change.
KeptItem(l) == l.answered.called /\ l.answered.item # Null

\* C27: in the item callbacks of the widget (add, update, remove, move), the
\* widget's function is called with the item only if addItem, updateItem or
\* removeItem returned true, and then with the item given to that method;
\* when the popup is cancelled or the method returns false, the document is
\* unchanged and the function is not called with the item.
C27_WidgetKeepsOnlyAccepted ==
    [][("callback" \in DOMAIN last'.arg /\ last'.arg.callback \in ItemCallbacks)
          => /\ KeptItem(last')
                   => /\ last'.op \in {"addItem", "updateItem", "removeItem"}
                      /\ last'.ret = TRUE
                      /\ last'.answered.item = last'.arg.item
             /\ (last'.arg.item = Null \/ last'.ret = FALSE)
                   => data' = data /\ ~KeptItem(last')]_vars

\* The add popup was confirmed for an item whose id is already that of an
\* item of the document: addItem returned false and the widget's function
\* was not called.
C27_Witness ==
    /\ last.op = "addItem"
    /\ "callback" \in DOMAIN last.arg
    /\ last.arg.callback = "onAdd"
    /\ last.arg.item # Null
    /\ last.ret = FALSE
    /\ ~last.answered.called
    /\ \E i \in 1..Len(data.items) : data.items[i].id = last.arg.item.id

\* C28: in every state reached after the construction of the timeline by
\* double clicks that create or delete markers, lock toggles, Json methods
\* and reloads through the load button, the custom time bars of the widget
\* are those of the keys of the markers of the document.
C28_BarsAreTheMarkers == customTimes = DOMAIN data.markers

\* C29: in every state reached by load and then addGroup, removeGroup,
\* renameGroup, toggleGroupVisibility and drops in the groups panel, the
\* root list of groups is in ascending order of position (equal positions
\* allowed), so that a save and a load keep the order of the groups.
C29_RootListAscending ==
    \A i, j \in 1..Len(data.groups) :
       i < j => data.groups[i].position <= data.groups[j].position

\* The eras of the document that are visible and end after they start.
ShownEras ==
    {u \in DOMAIN data.eras.entries :
        Truthy(data.eras.entries[u].visible) /\ EndAfterStart(data.eras.entries[u])}

\* C30: when a method of Json that dispatched 'updated' has returned, the
\* timeline has been refreshed from the document the method left: the
\* groups of the widget are the flat list of the forest, and its items are
\* the items of the document and one background item for each era that is
\* visible and ends after it starts.
C30_TimelineFollowsNotifications ==
    last.notified > 0
       => /\ visGroups = FlatGroups
          /\ Len(visItems) = Len(data.items) + Cardinality(ShownEras)
          /\ SubSeq(visItems, 1, Len(data.items)) = data.items
          /\ \A u \in ShownEras :
                \E i \in (Len(data.items) + 1)..Len(visItems) :
                   visItems[i].id = u /\ visItems[i].type = "background"

\* A method of Json changed the document and dispatched 'updated' after a
\* drop in the groups panel that the timeline had not shown yet.
C30_Witness ==
    /\ last.op \in {"addGroup", "addItem", "updateItem", "removeItem"}
    /\ last.notified > 0
    /\ \E i \in 1..Len(data.groups) : data.groups[i].visible = attribute(JsFalse)
    /\ Len(visGroups) = Len(Flatten(data.groups))

====
